---- MODULE Spec2Model ----
(***************************************************************************)
(* Storage-commitment verification (TopicManager.evaluateCommitment).     *)
(*                                                                         *)
(* A byte is an integer in 0..255, a Buffer a sequence of bytes, and a JS  *)
(* string a sequence of code points.  The verifier receives a raw output   *)
(* script, a public key and reads the wall clock; it answers true/false.   *)
(*                                                                         *)
(* The primitives of @bsv/sdk are modelled as ideal ones: SHA-256 is       *)
(* collision free (a digest stands for exactly one preimage) and a         *)
(* signature verifies under a key only if it was made with that key over   *)
(* that digest.  The DER container of the signature is kept byte-wise.     *)
(***************************************************************************)
EXTENDS Integers, Sequences, FiniteSets, TLC

\* ---------------------------------------------------------------- bounds
\* Largest clock reading (unix seconds) of the model.
MaxClock == 2
\* Longest arbitrary raw buffer handed to the verifier.
MaxRawLen == 3
\* Largest amount by which a tampered final length prefix overruns the buffer.
MaxOverrun == 2

\* ------------------------------------------------------------- constants
\* '1UHRPYnMHPuQ5Tgb3AF8JXqwKkmZVy5hG'
UHRP_PROTOCOL_ADDRESS ==
  <<49, 85, 72, 82, 80, 89, 110, 77, 72, 80, 117, 81, 53, 84, 103, 98, 51,
    65, 70, 56, 74, 88, 113, 119, 75, 107, 109, 90, 86, 121, 53, 104, 71>>

\* /^[a-f0-9]{64}$/ : the number of hex characters of a SHA-256 hash.
SHA256_HEX_LENGTH == 64

\* Buffer.from([fieldBuffer.length]): the largest size one length byte states.
MAX_FIELD_LENGTH == 255

\* The field read as signature, and the number of fields that are signed.
SIGNATURE_FIELD == 7

Min(a, b) == IF a < b THEN a ELSE b

\* U+FFFD, what the UTF-8 decoder emits for an ill-formed sequence.
ReplacementChar == 65533

\* ------------------------------------------------------- Buffer helpers
\* Buffer.slice(start, end): both ends are clipped to the buffer (0-based,
\* end exclusive).
BufferSlice(buf, start, end) ==
  SubSeq(buf, Min(start, Len(buf)) + 1, Min(end, Len(buf)))

RECURSIVE BufferConcat(_)
\* Buffer.concat(list)
BufferConcat(list) ==
  IF list = <<>> THEN <<>> ELSE Head(list) \o BufferConcat(Tail(list))

RECURSIVE Utf8Decode(_, _, _, _, _, _, _)
\* buf.toString('utf8'): the decoder's state machine.  need/seen count the
\* continuation bytes of the sequence in progress, cp accumulates its code
\* point, lo..hi is the range allowed for the next continuation byte.  An
\* ill-formed sequence yields U+FFFD and decoding resumes at the offending
\* byte.
Utf8Decode(buf, i, need, seen, cp, lo, hi) ==
  IF i > Len(buf)
    THEN IF need # 0 THEN <<ReplacementChar>> ELSE <<>>
    ELSE
      LET b == buf[i] IN
      IF need = 0
        THEN IF b <= 127 THEN <<b>> \o Utf8Decode(buf, i + 1, 0, 0, 0, 128, 191)
             ELSE IF b >= 194 /\ b <= 223
               THEN Utf8Decode(buf, i + 1, 1, 0, b % 32, 128, 191)
             ELSE IF b >= 224 /\ b <= 239
               THEN Utf8Decode(buf, i + 1, 2, 0, b % 16,
                               IF b = 224 THEN 160 ELSE 128,
                               IF b = 237 THEN 159 ELSE 191)
             ELSE IF b >= 240 /\ b <= 244
               THEN Utf8Decode(buf, i + 1, 3, 0, b % 8,
                               IF b = 240 THEN 144 ELSE 128,
                               IF b = 244 THEN 143 ELSE 191)
             ELSE <<ReplacementChar>> \o Utf8Decode(buf, i + 1, 0, 0, 0, 128, 191)
        ELSE IF b < lo \/ b > hi
          THEN <<ReplacementChar>> \o Utf8Decode(buf, i, 0, 0, 0, 128, 191)
          ELSE IF seen + 1 = need
            THEN <<cp * 64 + (b % 64)>> \o Utf8Decode(buf, i + 1, 0, 0, 0, 128, 191)
            ELSE Utf8Decode(buf, i + 1, need, seen + 1, cp * 64 + (b % 64), 128, 191)

\* buf.toString('utf8')
toStringUtf8(buf) == Utf8Decode(buf, 1, 0, 0, 0, 128, 191)

\* One hex digit as a character: 0-9 then lowercase a-f.
HexDigit(n) == IF n < 10 THEN 48 + n ELSE 87 + n

RECURSIVE toStringHex(_)
\* buf.toString('hex'): two lowercase hex characters per byte.
toStringHex(buf) ==
  IF buf = <<>> THEN <<>>
  ELSE <<HexDigit(Head(buf) \div 16), HexDigit(Head(buf) % 16)>>
         \o toStringHex(Tail(buf))

RECURSIVE Utf8Encode(_)
\* Buffer.from(str, 'utf8') for code points below U+10000.
Utf8Encode(str) ==
  IF str = <<>> THEN <<>>
  ELSE LET c == Head(str) IN
       (IF c < 128 THEN <<c>>
        ELSE IF c < 2048 THEN <<192 + (c \div 64), 128 + (c % 64)>>
        ELSE <<224 + (c \div 4096), 128 + ((c \div 64) % 64), 128 + (c % 64)>>)
       \o Utf8Encode(Tail(str))

\* ------------------------------------------------------------- parseInt
NaN == [nan |-> TRUE, val |-> 0]
Num(n) == [nan |-> FALSE, val |-> n]

\* The characters parseInt skips at the start (WhiteSpace and LineTerminator).
WhiteSpace ==
  {9, 10, 11, 12, 13, 32, 160, 5760, 8232, 8233, 8239, 8287, 12288, 65279}
    \cup (8192..8202)

IsDigit(c) == c >= 48 /\ c <= 57

RECURSIVE SkipWhiteSpace(_)
SkipWhiteSpace(str) ==
  IF str # <<>> /\ Head(str) \in WhiteSpace THEN SkipWhiteSpace(Tail(str)) ELSE str

RECURSIVE DigitsValue(_, _)
\* The value of the longest prefix of decimal digits of str, acc being the
\* value read so far.
DigitsValue(str, acc) ==
  IF str # <<>> /\ IsDigit(Head(str))
    THEN DigitsValue(Tail(str), acc * 10 + (Head(str) - 48))
    ELSE acc

\* parseInt(str, 10): leading white space is skipped, one sign is read, then
\* the longest run of digits; what follows is ignored; no digit gives NaN.
parseInt(str) ==
  LET s == SkipWhiteSpace(str)
      neg == s # <<>> /\ Head(s) = 45
      signed == s # <<>> /\ Head(s) \in {43, 45}
      body == IF signed THEN Tail(s) ELSE s
  IN IF body = <<>> \/ ~IsDigit(Head(body)) THEN NaN
     ELSE Num((IF neg THEN -1 ELSE 1) * DigitsValue(body, 0))

\* a <= b on JS numbers: false as soon as one side is NaN.
LessOrEqual(a, b) == ~a.nan /\ ~b.nan /\ a.val <= b.val

RECURSIVE DecimalString(_)
\* n.toString() for an integer n.
DecimalString(n) ==
  IF n < 0 THEN <<45>> \o DecimalString(-n)
  ELSE IF n < 10 THEN <<48 + n>>
  ELSE DecimalString(n \div 10) \o <<48 + (n % 10)>>

\* ------------------------------------------------ external collaborators
\* isValidURL(text) of ./utils/utils: a syntactic check of scheme and host
\* shape: "http://" or "https://" followed by a non-empty host.
isValidURL(url) ==
  LET http == <<104, 116, 116, 112, 58, 47, 47>>
      https == <<104, 116, 116, 112, 115, 58, 47, 47>>
  IN \/ Len(url) > Len(http) /\ SubSeq(url, 1, Len(http)) = http
     \/ Len(url) > Len(https) /\ SubSeq(url, 1, Len(https)) = https

\* Hash.sha256(message): an ideal digest, standing for its one preimage.
sha256(message) == [preimage |-> message]

\* privateKey.sign(digest): the ideal signature of key pair privateKey over
\* digest; r names the key pair and s the digest.
sign(privateKey, digest) == [r |-> <<privateKey>>, s |-> digest.preimage]

\* signature.toDER(): 0x30 len 0x02 rlen r 0x02 slen s
toDER(signature) ==
  <<48, 4 + Len(signature.r) + Len(signature.s), 2, Len(signature.r)>>
    \o signature.r \o <<2, Len(signature.s)>> \o signature.s

\* Signature.fromDER(data): ok is false where the library throws (wrong tag
\* bytes, a length of more than one byte, lengths that do not add up to the
\* data).
fromDER(data) ==
  LET n == Len(data)
      bad == [ok |-> FALSE, signature |-> [r |-> <<>>, s |-> <<>>]]
  IN IF n < 4 \/ data[1] # 48 \/ data[2] >= 128 \/ data[2] + 2 # n
          \/ data[3] # 2 \/ data[4] >= 128
       THEN bad
       ELSE LET rlen == data[4]
                p == 4 + rlen
            IN IF p + 2 > n \/ data[p + 1] # 2 \/ data[p + 2] >= 128
                    \/ p + 2 + data[p + 2] # n
                 THEN bad
                 ELSE [ok |-> TRUE,
                       signature |-> [r |-> SubSeq(data, 5, p),
                                      s |-> SubSeq(data, p + 3, n)]]

\* pubKey.verify(digest, signature): true exactly for a signature made by the
\* key pair of pubKey over this digest.
verify(pubKey, digest, signature) ==
  signature.r = <<pubKey>> /\ signature.s = digest.preimage

\* -------------------------------------------------------- TopicManager
\* Faulty variant of decodeField: slice(i + 1, i + length), the last byte of
\* the field is left out.
decodeField_Short(outputScript, i, length) ==
  BufferSlice(outputScript, i + 1, i + length)

\* outputScript.slice(i + 1, i + 1 + length)
decodeField(outputScript, i, length) ==
  BufferSlice(outputScript, i + 1, i + 1 + length)

\* Faulty variant of decodeAdvance: i += length, the length byte is not
\* stepped over.
decodeAdvance_ContentOnly(i, length) == i + length

\* i += 1 + length
decodeAdvance(i, length) == i + 1 + length

RECURSIVE decodeLoop(_, _, _)
\* The while loop of decodeOutputScript from the 0-based cursor i on: the
\* cursor it ends at and the fields it has pushed.
decodeLoop(outputScript, i, fields) ==
  IF i < Len(outputScript)
    THEN LET length == outputScript[i + 1]
             field == decodeField(outputScript, i, length)
         IN decodeLoop(outputScript, decodeAdvance(i, length),
                       Append(fields, field))
    ELSE [i |-> i, fields |-> fields]

\* TopicManager.decodeOutputScript
decodeOutputScript(outputScript) == decodeLoop(outputScript, 0, <<>>).fields

\* Faulty variant of isValidSHA256: /^[a-f0-9]+$/, the length is not checked.
isValidSHA256_AnyLength(hash) ==
  /\ Len(hash) > 0
  /\ \A i \in 1..Len(hash) : hash[i] \in (97..102) \cup (48..57)

\* /^[a-f0-9]{64}$/.test(hash)
isValidSHA256(hash) ==
  /\ Len(hash) = SHA256_HEX_LENGTH
  /\ \A i \in 1..Len(hash) : hash[i] \in (97..102) \cup (48..57)

\* fields[k] is undefined when the decoder produced k fields or fewer.
IsDefined(fields, k) == k < Len(fields)
FieldAt(fields, k) == fields[k + 1]

\* The console.log lines ahead of the checks call toString on fields 0, 1, 4,
\* 5 and 6 (fields 2 and 7 are printed as they are): a TypeError when one of
\* them is undefined.
logFieldsThrows(fields) == \E k \in {0, 1, 4, 5, 6} : ~IsDefined(fields, k)

\* Code point c in lower case (ASCII letters).
ToLowerCase(c) == IF c >= 65 /\ c <= 90 THEN c + 32 ELSE c

\* Faulty variant of protocolMismatch: the comparison ignores case.
protocolMismatch_IgnoreCase(field0) ==
  LET text == toStringUtf8(field0) IN
  [i \in 1..Len(text) |-> ToLowerCase(text[i])]
    # [i \in 1..Len(UHRP_PROTOCOL_ADDRESS) |-> ToLowerCase(UHRP_PROTOCOL_ADDRESS[i])]

\* fields[0].toString('utf8') !== UHRP_PROTOCOL_ADDRESS
protocolMismatch(field0) == toStringUtf8(field0) # UHRP_PROTOCOL_ADDRESS

\* Faulty variant of isExpired: expiryTime < currentTime.
isExpired_Inclusive(field5, currentTime) ==
  LET expiryTime == parseInt(toStringUtf8(field5)) IN
  ~expiryTime.nan /\ expiryTime.val < currentTime

\* Faulty variant of isExpired: the comparison is turned around,
\* expiryTime >= currentTime.
isExpired_Reversed(field5, currentTime) ==
  LessOrEqual(Num(currentTime), parseInt(toStringUtf8(field5)))

\* expiryTime <= currentTime
isExpired(field5, currentTime) ==
  LessOrEqual(parseInt(toStringUtf8(field5)), Num(currentTime))

\* Faulty variant of isInvalidFileSize: fileSize < 0.
isInvalidFileSize_ZeroAllowed(field6) ==
  LET fileSize == parseInt(toStringUtf8(field6)) IN
  ~fileSize.nan /\ fileSize.val < 0

\* fileSize <= 0
isInvalidFileSize(field6) ==
  LessOrEqual(parseInt(toStringUtf8(field6)), Num(0))

\* Faulty variant of signedMessage: fields.slice(0, 8), the signature field
\* is taken into the message.
signedMessage_WithSignature(fields) ==
  BufferConcat(SubSeq(fields, 1, Min(SIGNATURE_FIELD + 1, Len(fields))))

\* Faulty variant of signedMessage: fields.slice(0, -1), every field but the
\* last one.
signedMessage_AllButLast(fields) ==
  BufferConcat(SubSeq(fields, 1, Len(fields) - 1))

\* Buffer.concat(fields.slice(0, 7))
signedMessage(fields) ==
  BufferConcat(SubSeq(fields, 1, Min(SIGNATURE_FIELD, Len(fields))))

Thrown(kind, message, checks) ==
  [thrown |-> kind, message |-> message, checks |-> checks]

\* Faulty variant of verifyStep: the outcome of pubKey.verify is not looked at.
verifyStep_Unchecked(fields, pubKey, checks) ==
  LET done == Append(checks, "signature") IN
  IF ~IsDefined(fields, SIGNATURE_FIELD)
    THEN Thrown("TypeError", "undefined is not iterable", done)
  ELSE IF ~fromDER(FieldAt(fields, SIGNATURE_FIELD)).ok
    THEN Thrown("Error", "Signature DER invalid", done)
  ELSE Thrown("none", "", done)

\* Faulty variant of verifyStep: a signature that does not parse as DER is
\* skipped instead of failing the evaluation.
verifyStep_DerLenient(fields, pubKey, checks) ==
  LET done == Append(checks, "signature")
      sha256Message == sha256(signedMessage(fields))
  IN IF ~IsDefined(fields, SIGNATURE_FIELD)
       THEN Thrown("TypeError", "undefined is not iterable", done)
     ELSE LET der == fromDER(FieldAt(fields, SIGNATURE_FIELD)) IN
          IF ~der.ok
            THEN Thrown("none", "", done)
          ELSE IF ~verify(pubKey, sha256Message, der.signature)
            THEN Thrown("Error", "Invalid signature.", done)
          ELSE Thrown("none", "", done)

\* Faulty variant of verifyStep: a missing signature field is not verified.
verifyStep_SkipMissing(fields, pubKey, checks) ==
  LET done == Append(checks, "signature")
      sha256Message == sha256(signedMessage(fields))
  IN IF ~IsDefined(fields, SIGNATURE_FIELD)
       THEN Thrown("none", "", done)
     ELSE LET der == fromDER(FieldAt(fields, SIGNATURE_FIELD)) IN
          IF ~der.ok
            THEN Thrown("Error", "Signature DER invalid", done)
          ELSE IF ~verify(pubKey, sha256Message, der.signature)
            THEN Thrown("Error", "Invalid signature.", done)
          ELSE Thrown("none", "", done)

\* Step 3 of the try block: the signature.
verifyStep(fields, pubKey, checks) ==
  LET done == Append(checks, "signature")
      sha256Message == sha256(signedMessage(fields))
  IN IF ~IsDefined(fields, SIGNATURE_FIELD)
       THEN Thrown("TypeError", "undefined is not iterable", done)
     ELSE LET der == fromDER(FieldAt(fields, SIGNATURE_FIELD)) IN
          IF ~der.ok
            THEN Thrown("Error", "Signature DER invalid", done)
          ELSE IF ~verify(pubKey, sha256Message, der.signature)
            THEN Thrown("Error", "Invalid signature.", done)
          ELSE Thrown("none", "", done)

\* What a property access on undefined throws.
UndefinedAccess(checks) ==
  Thrown("TypeError", "Cannot read properties of undefined", checks)

\* The try block of evaluateCommitment: what it throws ("none": it returns
\* true) and the checks it ran, in order.
tryBlock(outputScript, pubKey, currentTime) ==
  LET fields == decodeOutputScript(outputScript)
      c1 == <<"access">>
      c2 == Append(c1, "protocol")
      c3 == Append(c2, "hash")
      c4 == Append(c3, "url")
      c5 == Append(c4, "expiry")
      c6 == Append(c5, "fileSize")
  IN
  IF logFieldsThrows(fields) THEN UndefinedAccess(c1)
  ELSE IF ~IsDefined(fields, 0) THEN UndefinedAccess(c2)
  ELSE IF protocolMismatch(FieldAt(fields, 0))
    THEN Thrown("Error", "Invalid UHRP protocol address.", c2)
  ELSE IF ~IsDefined(fields, 2) THEN UndefinedAccess(c3)
  ELSE IF ~isValidSHA256(toStringHex(FieldAt(fields, 2)))
    THEN Thrown("Error", "Invalid SHA256 hash.", c3)
  ELSE IF ~IsDefined(fields, 4) THEN UndefinedAccess(c4)
  ELSE IF ~isValidURL(toStringUtf8(FieldAt(fields, 4)))
    THEN Thrown("Error", "Invalid URL.", c4)
  ELSE IF ~IsDefined(fields, 5) THEN UndefinedAccess(c5)
  ELSE IF isExpired(FieldAt(fields, 5), currentTime)
    THEN Thrown("Error", "Invalid or expired timestamp.", c5)
  ELSE IF ~IsDefined(fields, 6) THEN UndefinedAccess(c6)
  ELSE IF isInvalidFileSize(FieldAt(fields, 6))
    THEN Thrown("Error", "Invalid file size.", c6)
  ELSE verifyStep(fields, pubKey, c6)

\* Faulty variant of catchClause: only the errors the checks throw are
\* handled, a TypeError is thrown on to the caller.
catchClause_Rethrow(outcome) ==
  [result |-> outcome.thrown = "none",
   escaped |-> outcome.thrown = "TypeError",
   thrown |-> outcome.thrown,
   message |-> outcome.message,
   checks |-> outcome.checks]

\* The catch clause: whatever was thrown is logged and becomes false.
catchClause(outcome) ==
  [result |-> outcome.thrown = "none",
   escaped |-> FALSE,
   thrown |-> outcome.thrown,
   message |-> outcome.message,
   checks |-> outcome.checks]

\* TopicManager.evaluateCommitment(outputScript, pubKey), the clock reading
\* Math.floor(Date.now() / 1000) being currentTime.
evaluateCommitment(outputScript, pubKey, currentTime) ==
  catchClause(tryBlock(outputScript, pubKey, currentTime))

\* ------------------------------------------------------ token producers
\* createOutputScript of the tests: one length byte, then the content.
createOutputScript(fields) ==
  BufferConcat([i \in 1..Len(fields) |->
                  <<Len(fields[i]) % 256>> \o fields[i]])

\* signCommitment of the tests, for the key pair privateKey.
signCommitment(privateKey, fields) ==
  toDER(sign(privateKey, sha256(BufferConcat(fields))))

\* --------------------------------------------------------------- inputs
Keys == {1, 2}

Protocols ==
  {UHRP_PROTOCOL_ADDRESS,
   \* 'invalid_protocol'
   <<105, 110, 118, 97, 108, 105, 100, 95, 112, 114, 111, 116, 111, 99, 111, 108>>,
   \* the tag with its second letter in lower case
   [UHRP_PROTOCOL_ADDRESS EXCEPT ![2] = 117],
   \* the tag with its first character in an overlong two-byte form
   <<193, 177>> \o Tail(UHRP_PROTOCOL_ADDRESS)}

\* pubKey.toString(), shortened
HostIds == {<<48, 50>>}

\* 32 raw bytes standing for a SHA-256 digest.
ValidHash == [i \in 1..32 |-> (i * 37 + 11) % 256]

Hashes ==
  {ValidHash,
   SubSeq(ValidHash, 1, 31),
   ValidHash \o <<7>>,
   \* 'invalidhash'
   <<105, 110, 118, 97, 108, 105, 100, 104, 97, 115, 104>>}

\* 'advertise'
Actions == {<<97, 100, 118, 101, 114, 116, 105, 115, 101>>}

URLs ==
  {\* 'https://valid.url'
   <<104, 116, 116, 112, 115, 58, 47, 47, 118, 97, 108, 105, 100, 46, 117, 114, 108>>,
   \* 'invalid-url'
   <<105, 110, 118, 97, 108, 105, 100, 45, 117, 114, 108>>}

\* 'abc'
NonNumeric == <<97, 98, 99>>

Expiries == {DecimalString(n) : n \in 0..(MaxClock + 1)} \cup {NonNumeric}

FileSizes ==
  {DecimalString(0), DecimalString(-1), DecimalString(1), DecimalString(1024),
   NonNumeric}

\* Arbitrary short buffers.
RawBytes == {0, 1, 2, 255}
RawBuffers == UNION {[1..n -> RawBytes] : n \in 0..MaxRawLen}

\* ---------------------------------------------------------------- state
VARIABLES
  outputScript,  \* the raw script the verifier is handed
  pubKey,        \* the public key the verifier is handed
  now,           \* the verifier's clock, unix seconds
  verdict,       \* the outcome of the last evaluation of outputScript
  origin,        \* how outputScript came about
  cursor,        \* decodeOutputScript: the cursor i
  fields,        \* decodeOutputScript: the fields pushed so far
  rejected       \* outputScript was evaluated false at some clock reading

vars == <<outputScript, pubKey, now, verdict, origin, cursor, fields, rejected>>

NoVerdict ==
  [evaluated |-> FALSE, result |-> FALSE, escaped |-> FALSE, thrown |-> "none",
   message |-> "", checks |-> <<>>]

Origin(kind, sent, signer, field) ==
  [kind |-> kind, sent |-> sent, signer |-> signer, field |-> field]

\* Nothing of the script has been decoded or evaluated.
NotEvaluated ==
  /\ verdict = NoVerdict
  /\ cursor = 0
  /\ fields = <<>>

Init ==
  /\ outputScript = <<>>
  /\ pubKey \in Keys
  /\ now = 0
  /\ origin = Origin("none", <<>>, 0, -1)
  /\ NotEvaluated
  /\ rejected = FALSE

\* The verifier holds another script: no evaluation of it has happened.
NewScript ==
  /\ verdict' = NoVerdict
  /\ cursor' = 0
  /\ fields' = <<>>
  /\ rejected' = FALSE

\* A producer composes a token of eight fields, signed with the key pair
\* signer, and hands it to the verifier (one token per run of the verifier).
Compose ==
  /\ origin.kind = "none"
  /\ \E f0 \in Protocols, f1 \in HostIds, f2 \in Hashes, f3 \in Actions,
     f4 \in URLs, f5 \in Expiries, f6 \in FileSizes, signer \in Keys :
       LET sent == <<f0, f1, f2, f3, f4, f5, f6>> IN
       /\ outputScript' =
            createOutputScript(Append(sent, signCommitment(signer, sent)))
       /\ origin' = Origin("composed", sent, signer, -1)
  /\ NewScript
  /\ UNCHANGED <<pubKey, now>>

\* The verifier is handed arbitrary bytes.
Receive ==
  /\ origin.kind = "none"
  /\ \E raw \in RawBuffers : outputScript' = raw
  /\ origin' = Origin("raw", <<>>, 0, -1)
  /\ NewScript
  /\ UNCHANGED <<pubKey, now>>

\* The call TopicManager.evaluateCommitment(outputScript, pubKey).
Evaluate ==
  /\ ~verdict.evaluated
  /\ verdict' = [evaluated |-> TRUE]
                  @@ evaluateCommitment(outputScript, pubKey, now)
  /\ cursor' = decodeLoop(outputScript, 0, <<>>).i
  /\ fields' = decodeOutputScript(outputScript)
  /\ rejected' = (rejected \/ ~verdict'.result)
  /\ UNCHANGED <<outputScript, pubKey, now, origin>>

\* The clock advances by one second.
Tick ==
  /\ now < MaxClock
  /\ now' = now + 1
  /\ verdict' = NoVerdict
  /\ cursor' = 0
  /\ fields' = <<>>
  /\ UNCHANGED <<outputScript, pubKey, origin, rejected>>

\* 0-based offset in the script of the length byte of field k.
RECURSIVE PrefixOffset(_, _)
PrefixOffset(list, k) ==
  IF k = 0 THEN 0 ELSE PrefixOffset(list, k - 1) + 1 + Len(list[k])

\* The values a tampered byte takes: its lowest bit or its case bit flipped.
FlipValues(b) ==
  {IF b % 2 = 0 THEN b + 1 ELSE b - 1,
   IF (b \div 32) % 2 = 0 THEN b + 32 ELSE b - 32}

\* A token the verifier accepted is tampered with: one byte of the content of
\* one of the signed fields is changed, the signature field is left as it is.
FlipByte ==
  /\ verdict.evaluated /\ verdict.result /\ origin.kind = "composed"
  /\ \E k \in 0..6 :
       \E pos \in 1..Len(origin.sent[k + 1]) :
         LET at == PrefixOffset(origin.sent, k) + 1 + pos IN
         \E b \in FlipValues(outputScript[at]) :
           /\ outputScript' = [outputScript EXCEPT ![at] = b]
           /\ origin' = [origin EXCEPT !.kind = "flipped", !.field = k]
  /\ NewScript
  /\ UNCHANGED <<pubKey, now>>

\* An accepted token is cut down to its first k fields.
Truncate ==
  /\ verdict.evaluated /\ verdict.result /\ origin.kind = "composed"
  /\ \E k \in 0..7 :
       /\ outputScript' = SubSeq(outputScript, 1, PrefixOffset(origin.sent, k))
       /\ origin' = [origin EXCEPT !.kind = "truncated", !.field = k]
  /\ NewScript
  /\ UNCHANGED <<pubKey, now>>

\* The final length prefix of an accepted token is raised beyond the bytes
\* that remain.
Overrun ==
  /\ verdict.evaluated /\ verdict.result /\ origin.kind = "composed"
  /\ \E extra \in 1..MaxOverrun :
       LET at == PrefixOffset(origin.sent, 7) + 1 IN
       /\ outputScript[at] + extra <= 255
       /\ outputScript' = [outputScript EXCEPT ![at] = @ + extra]
       /\ origin' = [origin EXCEPT !.kind = "overrun", !.field = 7]
  /\ NewScript
  /\ UNCHANGED <<pubKey, now>>

\* The last bytes of an accepted token are lost.
Cut ==
  /\ verdict.evaluated /\ verdict.result /\ origin.kind = "composed"
  /\ \E lost \in 1..MaxOverrun :
       /\ outputScript' = SubSeq(outputScript, 1, Len(outputScript) - lost)
       /\ origin' = [origin EXCEPT !.kind = "cut", !.field = 7]
  /\ NewScript
  /\ UNCHANGED <<pubKey, now>>

\* What stands in for the signature of a token whose signature is malformed:
\* nothing, the signature without its last byte, the bytes 00 00, and the
\* text 'invalidsignature'.
BadSignatures(signature) ==
  {<<>>,
   SubSeq(signature, 1, Len(signature) - 1),
   <<0, 0>>,
   <<105, 110, 118, 97, 108, 105, 100, 115, 105, 103, 110, 97, 116, 117, 114, 101>>}

\* The signature field of an accepted token is replaced by bytes that are no
\* DER signature.
BadSignature ==
  /\ verdict.evaluated /\ verdict.result /\ origin.kind = "composed"
  /\ \E bad \in BadSignatures(signCommitment(origin.signer, origin.sent)) :
       outputScript' = createOutputScript(Append(origin.sent, bad))
  /\ origin' = [origin EXCEPT !.kind = "badsig", !.field = 7]
  /\ NewScript
  /\ UNCHANGED <<pubKey, now>>

\* The token as the producer composed it.
ComposedScript ==
  createOutputScript(Append(origin.sent,
                            signCommitment(origin.signer, origin.sent)))

\* The boundary between the signed fields k and k + 1 of an accepted token is
\* moved by one byte, to the left (the last byte of field k becomes the first
\* of field k + 1) or to the right; the bytes of the token, its signature
\* included, stay in their order.
MoveBoundary ==
  /\ verdict.evaluated /\ verdict.result /\ origin.kind = "composed"
  /\ \E k \in 0..5, left \in BOOLEAN :
       LET a == origin.sent[k + 1]
           b == origin.sent[k + 2]
           moved ==
             IF left
               THEN [origin.sent EXCEPT ![k + 1] = SubSeq(a, 1, Len(a) - 1),
                                        ![k + 2] = <<a[Len(a)]>> \o b]
               ELSE [origin.sent EXCEPT ![k + 1] = Append(a, b[1]),
                                        ![k + 2] = Tail(b)]
       IN /\ IF left THEN a # <<>> ELSE b # <<>>
          /\ outputScript' =
               createOutputScript(
                 Append(moved, signCommitment(origin.signer, origin.sent)))
          /\ origin' = [origin EXCEPT !.kind = "moved", !.field = k]
  /\ NewScript
  /\ UNCHANGED <<pubKey, now>>

\* The bytes that follow the eighth field of a token.
TrailingBytes == {<<0>>, <<2, 255>>}

\* Bytes are appended to a token that was evaluated.
AppendBytes ==
  /\ verdict.evaluated /\ origin.kind = "composed"
  /\ \E x \in TrailingBytes :
       /\ outputScript' = outputScript \o x
       /\ origin' = [origin EXCEPT !.kind = "appended", !.field = Len(x)]
  /\ NewScript
  /\ UNCHANGED <<pubKey, now>>

Next ==
  \/ Compose
  \/ Receive
  \/ Evaluate
  \/ Tick
  \/ FlipByte
  \/ Truncate
  \/ Overrun
  \/ Cut
  \/ BadSignature
  \/ MoveBoundary
  \/ AppendBytes

Spec == Init /\ [][Next]_vars

\* ------------------------------------------------- the decoder, stepwise
\* The fields a producer encodes: an empty one, a short one whose bytes read
\* as length prefixes, and one of the largest size a length byte can state.
EncodeFields ==
  {<<>>, <<1, 0>>, [j \in 1..MAX_FIELD_LENGTH |-> j % 256]}

\* decodeOutputScript is entered with a script: eight encoded fields, or
\* arbitrary bytes.
InitDecoder ==
  /\ \/ \E sent \in [1..8 -> EncodeFields] :
          /\ outputScript = createOutputScript(sent)
          /\ origin = Origin("encoded", sent, 0, -1)
     \/ /\ outputScript \in RawBuffers
        /\ origin = Origin("raw", <<>>, 0, -1)
  /\ pubKey = 1
  /\ now = 0
  /\ NotEvaluated
  /\ rejected = FALSE

\* One iteration of the while loop of decodeOutputScript.
DecodeStep ==
  /\ cursor < Len(outputScript)
  /\ LET length == outputScript[cursor + 1] IN
       /\ fields' = Append(fields, decodeField(outputScript, cursor, length))
       /\ cursor' = decodeAdvance(cursor, length)
  /\ UNCHANGED <<outputScript, pubKey, now, verdict, origin, rejected>>

\* The loop of decodeOutputScript has ended: return fields.
DecodeDone == cursor >= Len(outputScript)

NextDecoder == DecodeStep

SpecDecoder == InitDecoder /\ [][NextDecoder]_vars

\* ------------------------------------------------------------ properties
\* The fields the producer composed (field k of the token is Sent(k)).
Sent(k) == origin.sent[k + 1]

\* The fields the decoder finds in the script under evaluation.
Decoded == decodeOutputScript(outputScript)

\* The bytes of the protocol tag.
TagBytes == Utf8Encode(UHRP_PROTOCOL_ADDRESS)

\* str is 64 characters, each one of 0-9 a-f.
HexLower64(str) ==
  /\ Len(str) = 64
  /\ \A i \in 1..Len(str) :
       str[i] \in {48, 49, 50, 51, 52, 53, 54, 55, 56, 57, 97, 98, 99, 100, 101, 102}

\* bytes is the decimal notation of an integer greater than zero.
PositiveDecimal(bytes) ==
  /\ bytes # <<>>
  /\ \A i \in 1..Len(bytes) : IsDigit(bytes[i])
  /\ \E i \in 1..Len(bytes) : bytes[i] # 48

\* The expiry field is the decimal notation of an instant after now.
ExpiryAfterNow == \E e \in (now + 1)..(MaxClock + 1) : Sent(5) = DecimalString(e)

\* The token under evaluation is one a producer composed and signed with the
\* key pair of the verifier's public key.
SignedByKey ==
  /\ verdict.evaluated
  /\ origin.kind = "composed"
  /\ origin.signer = pubKey

\* The premises C1 names: signed, unexpired, positive size, hash of 64 hex
\* characters, exact protocol tag.
C1_Premises ==
  /\ SignedByKey
  /\ ExpiryAfterNow
  /\ PositiveDecimal(Sent(6))
  /\ HexLower64(toStringHex(Sent(2)))
  /\ Sent(0) = TagBytes

\* C1 as stated: every correctly signed commitment with expiry > now, file
\* size > 0, a 64-hex hash and the exact protocol tag evaluates to true.
C1_AsStated == C1_Premises => verdict.result = TRUE

\* C1, amended: every correctly signed commitment with expiry > now, file
\* size > 0, a 64-hex hash, the exact protocol tag and a URL field that passes
\* the URL-validity predicate evaluates to true.
C1_ValidCommitmentAccepted ==
  (C1_Premises /\ isValidURL(toStringUtf8(Sent(4)))) => verdict.result = TRUE

C1_Witness ==
  /\ C1_Premises
  /\ isValidURL(toStringUtf8(Sent(4)))
  /\ now > 0
  /\ verdict.result = TRUE
  /\ verdict.checks[Len(verdict.checks)] = "signature"

\* C2: once a token was accepted, changing one byte in the content of field
\* 0, 2, 4, 5 or 6 and keeping the signature field makes the evaluation false.
C2_TamperedFieldRejected ==
  (verdict.evaluated /\ origin.kind = "flipped" /\ origin.field \in {0, 2, 4, 5, 6})
    => verdict.result = FALSE

C2_Witness ==
  /\ verdict.evaluated
  /\ origin.kind = "flipped"
  /\ origin.field = 4
  /\ verdict.result = FALSE
  /\ verdict.message = "Invalid signature."

\* C3: whatever the buffer and the key, the evaluation ends with a boolean:
\* everything thrown inside becomes the result false and nothing escapes.
C3_NothingEscapes ==
  verdict.evaluated =>
    /\ verdict.result \in BOOLEAN
    /\ ~verdict.escaped
    /\ (verdict.thrown # "none" => verdict.result = FALSE)

C3_Witness ==
  /\ verdict.evaluated
  /\ origin.kind = "raw"
  /\ Len(outputScript) = MaxRawLen
  /\ verdict.thrown = "TypeError"
  /\ verdict.result = FALSE
  /\ ~verdict.escaped

\* C4: a token whose expiry field or file-size field is not a base-10 integer
\* evaluates to false, even when it is correctly signed.
C4_NonNumericRejected ==
  (verdict.evaluated /\ origin.kind = "composed"
     /\ (Sent(5) = NonNumeric \/ Sent(6) = NonNumeric))
    => verdict.result = FALSE

RECURSIVE FinalPrefixOverruns(_, _)
\* The length prefix of the last field, found from 0-based cursor i on, claims
\* more bytes than the buffer holds.
FinalPrefixOverruns(buf, i) ==
  IF i >= Len(buf) THEN FALSE
  ELSE IF i + 1 + buf[i + 1] > Len(buf) THEN TRUE
  ELSE FinalPrefixOverruns(buf, i + 1 + buf[i + 1])

\* C5: a buffer whose final length prefix claims more bytes than remain is
\* rejected: the evaluation of every such buffer is false.
C5_OverrunRejected ==
  (verdict.evaluated /\ FinalPrefixOverruns(outputScript, 0))
    => verdict.result = FALSE

\* Every check other than the expiry passes for the composed token.
PassesAllButExpiry ==
  /\ SignedByKey
  /\ Sent(0) = TagBytes
  /\ Len(Sent(2)) = 32
  /\ isValidURL(toStringUtf8(Sent(4)))
  /\ PositiveDecimal(Sent(6))

\* C6: the expiry comparison is exclusive: a token that passes every other
\* check is rejected when its expiry equals the clock reading and accepted
\* when it is the clock reading plus one.
C6_ExpiryExclusive ==
  PassesAllButExpiry =>
    /\ Sent(5) = DecimalString(now) => verdict.result = FALSE
    /\ Sent(5) = DecimalString(now + 1) => verdict.result = TRUE

C6_Witness ==
  /\ PassesAllButExpiry
  /\ now > 0
  /\ Sent(5) = DecimalString(now)
  /\ verdict.result = FALSE
  /\ verdict.message = "Invalid or expired timestamp."

\* C7: a buffer that decodes to fewer than 8 fields evaluates to false and
\* nothing is raised to the caller.
C7_FewerThanEightFields ==
  (verdict.evaluated /\ Len(Decoded) < 8)
    => (verdict.result = FALSE /\ ~verdict.escaped)

C7_Witness ==
  /\ verdict.evaluated
  /\ origin.kind = "truncated"
  /\ Len(Decoded) = 7
  /\ verdict.result = FALSE
  /\ verdict.thrown = "TypeError"
  /\ verdict.checks[Len(verdict.checks)] = "signature"

\* C8: a token whose hash field, read as hex, is not exactly 64 lowercase hex
\* characters evaluates to false, whatever its other fields and signature.
C8_HashFormatRequired ==
  (verdict.evaluated /\ Len(Decoded) >= 3
     /\ ~HexLower64(toStringHex(Decoded[3])))
    => verdict.result = FALSE

C8_Witness ==
  /\ SignedByKey
  /\ Sent(0) = TagBytes
  /\ Len(Sent(2)) = 33
  /\ isValidURL(toStringUtf8(Sent(4)))
  /\ ExpiryAfterNow
  /\ PositiveDecimal(Sent(6))
  /\ verdict.result = FALSE
  /\ verdict.message = "Invalid SHA256 hash."

\* Every check other than the file size passes for the composed token.
PassesAllButFileSize ==
  /\ SignedByKey
  /\ Sent(0) = TagBytes
  /\ Len(Sent(2)) = 32
  /\ isValidURL(toStringUtf8(Sent(4)))
  /\ ExpiryAfterNow

\* C9: a token that passes every other check is rejected with file size "0"
\* or "-1" and accepted with file size "1".
C9_FileSizeStrictlyPositive ==
  PassesAllButFileSize =>
    /\ Sent(6) \in {<<48>>, <<45, 49>>} => verdict.result = FALSE
    /\ Sent(6) = <<49>> => verdict.result = TRUE

C9_Witness ==
  /\ PassesAllButFileSize
  /\ Sent(6) = <<48>>
  /\ verdict.result = FALSE
  /\ verdict.message = "Invalid file size."

\* C10: a token whose field 0 is not byte for byte the protocol tag evaluates
\* to false, whatever its other fields and signature.
C10_ProtocolTagRequired ==
  (verdict.evaluated /\ Len(Decoded) >= 1
     /\ (Decoded[1] # TagBytes \/ toStringUtf8(Decoded[1]) # UHRP_PROTOCOL_ADDRESS))
    => verdict.result = FALSE

C10_Witness ==
  /\ SignedByKey
  /\ Sent(0) = [TagBytes EXCEPT ![2] = 117]
  /\ Len(Sent(2)) = 32
  /\ isValidURL(toStringUtf8(Sent(4)))
  /\ ExpiryAfterNow
  /\ PositiveDecimal(Sent(6))
  /\ verdict.result = FALSE
  /\ verdict.message = "Invalid UHRP protocol address."

\* C11: when field 7 is no DER signature (empty, truncated, arbitrary bytes)
\* and the earlier checks pass, the evaluation is false and nothing is raised.
C11_MalformedSignatureRejected ==
  (verdict.evaluated /\ origin.kind = "badsig")
    => (verdict.result = FALSE /\ ~verdict.escaped)

C11_Witness ==
  /\ verdict.evaluated
  /\ origin.kind = "badsig"
  /\ Len(Decoded) = 8
  /\ Decoded[8] # <<>>
  /\ verdict.checks[Len(verdict.checks)] = "signature"
  /\ verdict.message = "Signature DER invalid"
  /\ verdict.result = FALSE
  /\ ~verdict.escaped

\* C12: round trip: eight fields of 0 to 255 bytes each, encoded with one
\* length byte ahead of each content and then decoded, come back as the same
\* eight contents in the same order.
C12_RoundTrip ==
  (/\ origin.kind = "encoded"
   /\ \A k \in 1..Len(origin.sent) : Len(origin.sent[k]) <= 255
   /\ DecodeDone)
    => fields = origin.sent

C12_Witness ==
  /\ origin.kind = "encoded"
  /\ Len(origin.sent) = 8
  /\ \E k \in 1..8 : Len(origin.sent[k]) = 255
  /\ \E k \in 1..8 : Len(origin.sent[k]) = 0
  /\ DecodeDone
  /\ cursor = Len(outputScript)
  /\ fields = origin.sent

\* C13: the decoder's loop advances its cursor by at least 1 per iteration:
\* the iterations done, one per decoded field, never exceed the cursor nor the
\* length of the buffer, so the loop ends within length(buffer) iterations.
C13_DecoderBounded ==
  /\ Len(fields) <= cursor
  /\ Len(fields) <= Len(outputScript)
  /\ (~DecodeDone => cursor < Len(outputScript))

C13_Witness ==
  /\ origin.kind = "raw"
  /\ Len(outputScript) = MaxRawLen
  /\ DecodeDone
  /\ Len(fields) = Len(outputScript)

\* The order of the checks: field count, protocol tag, hash format, URL,
\* expiry, file size, signature ("access" is where the evaluation finds out
\* that fields are missing).
CheckOrder ==
  <<"access", "protocol", "hash", "url", "expiry", "fileSize", "signature">>

\* The position in CheckOrder of the first check the decoded fields fail, 7
\* when they fail none before the signature.
FirstFailingCheck ==
  IF Len(fields) < 8 THEN 1
  ELSE IF protocolMismatch(fields[1]) THEN 2
  ELSE IF ~isValidSHA256(toStringHex(fields[3])) THEN 3
  ELSE IF ~isValidURL(toStringUtf8(fields[5])) THEN 4
  ELSE IF isExpired(fields[6], now) THEN 5
  ELSE IF isInvalidFileSize(fields[7]) THEN 6
  ELSE 7

\* C14: the checks run in the order field count, protocol tag, hash format,
\* URL, expiry, file size, signature, and the evaluation stops at the first
\* check that fails: the checks that ran are those up to the first failing
\* one, and none after it.
C14_OrderedShortCircuit ==
  verdict.evaluated => verdict.checks = SubSeq(CheckOrder, 1, FirstFailingCheck)

\* C15: as the clock advances the verdict on a token never goes from false to
\* true, and from the clock reading that equals the token's expiry value on
\* the token is never evaluated valid.
C15_NoRevival ==
  (verdict.evaluated /\ verdict.result) =>
    /\ ~rejected
    /\ ~(Len(fields) >= 6 /\ \E e \in 0..now : fields[6] = DecimalString(e))

C15_Witness ==
  /\ PassesAllButExpiry
  /\ now = MaxClock
  /\ Sent(5) = DecimalString(1)
  /\ rejected
  /\ verdict.result = FALSE
  /\ verdict.message = "Invalid or expired timestamp."

\* C16: the signature binds the field boundaries: two tokens with the same
\* signature bytes that both evaluate to true under the same key at the same
\* clock reading have the same fields 0-6, field by field.
C16_SignatureBindsBoundaries ==
  (/\ verdict.evaluated /\ verdict.result
   /\ origin.kind = "moved"
   /\ Len(fields) = 8
   /\ fields[8] = signCommitment(origin.signer, origin.sent)
   /\ evaluateCommitment(ComposedScript, pubKey, now).result)
    => SubSeq(fields, 1, 7) = origin.sent

\* C17: bytes after the eighth field do not influence the verdict: a script
\* of at least 8 complete fields and the same script with bytes appended are
\* evaluated alike at the same clock reading.
C17_TrailingBytesIgnored ==
  (verdict.evaluated /\ origin.kind = "appended")
    => LET b == SubSeq(outputScript, 1, Len(outputScript) - origin.field) IN
       (Len(decodeOutputScript(b)) >= 8 /\ ~FinalPrefixOverruns(b, 0))
         => verdict.result = evaluateCommitment(b, pubKey, now).result

C17_Witness ==
  /\ verdict.evaluated
  /\ origin.kind = "appended"
  /\ origin.field = 2
  /\ Len(fields) = 9
  /\ FinalPrefixOverruns(outputScript, 0)
  /\ verdict.result = TRUE
====
